---- MODULE Spec2Model ----
(***************************************************************************)
(* Model of the seller-apis scripts: seller.py (Ozon) and market.py        *)
(* (Yandex Market).  Both reconcile the supplier's inventory file against  *)
(* the offer ids of a marketplace account and push stocks and prices in    *)
(* batches.                                                                *)
(*                                                                         *)
(* Python values.  A str is a tuple of one-character strings; a value     *)
(* read from the spreadsheet is either an int or a str and is tagged:     *)
(* [t |-> "int", i |-> n, s |-> <<>>] or [t |-> "str", i |-> 0, s |-> cs]. *)
(* The spreadsheet columns "Код", "Количество", "Цена" are the record     *)
(* fields Kod, Kolichestvo, Tsena.                                         *)
(***************************************************************************)
EXTENDS Integers, Sequences, FiniteSets, TLC

VARIABLES
  mp,             \* which script runs: "seller" (Ozon) or "market" (Yandex)
  entry,          \* the function that was called
  pc,             \* position inside it
  account,        \* account being processed: "OZON", "FBS", "DBS"
  backend,        \* per account, the remote catalog and how it is paged
  feed,           \* what download_stock() will return
  watch_remnants, \* the local inventory
  page,           \* cursor of the next page request (page / last_id)
  product_list,   \* items accumulated by get_offer_ids
  offer_ids,      \* the caller's offer_ids list (create_stocks mutates it)
  remote,         \* the offer ids as get_offer_ids returned them / as passed
  stocks,         \* result of create_stocks
  prices,         \* result of create_prices
  batches,        \* list(divide(...)) of the running submission loop
  sent,           \* number of batches of that loop already submitted
  requests,       \* every network request issued so far, in order
  outcome,        \* "" while running, then how the call ended
  lst,            \* divide's argument
  n               \* divide's chunk size

vars == <<mp, entry, pc, account, backend, feed, watch_remnants, page,
          product_list, offer_ids, remote, stocks, prices, batches, sent,
          requests, outcome, lst, n>>

----------------------------------------------------------------------------
(* Bounds of the model *)

MaxInv == 2
MaxRemote == 2
MaxLst == 4
MaxN == 3
MaxFeed == 2
MaxPs == 2
Overflow == 1
MaxRequests == 40

----------------------------------------------------------------------------
(* Python primitives *)

PyInt(v) == [t |-> "int", i |-> v, s |-> << >>]
PyStr(cs) == [t |-> "str", i |-> 0, s |-> cs]

Digits == <<"0", "1", "2", "3", "4", "5", "6", "7", "8", "9">>

IsDigit(c) == \E d \in 1..10 : Digits[d] = c

DigitVal(c) == (CHOOSE d \in 1..10 : Digits[d] = c) - 1

SetMin(S) == CHOOSE x \in S : \A y \in S : x <= y

SetMax(S) == CHOOSE x \in S : \A y \in S : y <= x

RECURSIVE NatToStr(_)
NatToStr(v) ==
  IF v < 10 THEN <<Digits[v + 1]>>
  ELSE Append(NatToStr(v \div 10), Digits[(v % 10) + 1])

\* str(x)
py_str(x) ==
  IF x.t = "str" THEN x.s
  ELSE IF x.i < 0 THEN <<"-">> \o NatToStr(0 - x.i) ELSE NatToStr(x.i)

RECURSIVE DigitsToNat(_)
DigitsToNat(ds) ==
  IF ds = << >> THEN 0
  ELSE DigitsToNat(SubSeq(ds, 1, Len(ds) - 1)) * 10 + DigitVal(ds[Len(ds)])

Strip(cs) ==
  LET keep == {k \in 1..Len(cs) : cs[k] # " "}
  IN IF keep = {} THEN << >> ELSE SubSeq(cs, SetMin(keep), SetMax(keep))

\* int(x): an int is returned as it is; a str is stripped of blanks, may carry
\* a sign, and must then be digits only, else ValueError (ok = FALSE).
py_int(x) ==
  IF x.t = "int" THEN [ok |-> TRUE, v |-> x.i]
  ELSE LET b == Strip(x.s)
           signed == b # << >> /\ b[1] \in {"-", "+"}
           ds == IF signed THEN Tail(b) ELSE b
       IN IF ds # << >> /\ \A k \in 1..Len(ds) : IsDigit(ds[k])
          THEN [ok |-> TRUE,
                v |-> IF signed /\ b[1] = "-" THEN 0 - DigitsToNat(ds)
                      ELSE DigitsToNat(ds)]
          ELSE [ok |-> FALSE, v |-> 0]

\* x in s
In(x, s) == \E k \in 1..Len(s) : s[k] = x

\* a remove that leaves the list as it is
RemoveKeepsAll(s, x) == s

\* s.remove(x): drops the first occurrence of x (x is in s where it is called)
Remove(s, x) ==
  LET j == SetMin({k \in 1..Len(s) : s[k] = x})
  IN [k \in 1..(Len(s) - 1) |-> IF k < j THEN s[k] ELSE s[k + 1]]

----------------------------------------------------------------------------
(* seller.py: price_conversion, divide *)

\* re.sub("[^0-9]", "", price.split(".")[0]); a non-str has no split
\* (AttributeError, ok = FALSE)
price_conversion(price) ==
  IF price.t # "str" THEN [ok |-> FALSE, s |-> << >>]
  ELSE LET dots == {k \in 1..Len(price.s) : price.s[k] = "."}
           head == IF dots = {} THEN price.s
                   ELSE SubSeq(price.s, 1, SetMin(dots) - 1)
       IN [ok |-> TRUE, s |-> SelectSeq(head, IsDigit)]

\* a divide whose chunks hold one element too many
divide_overlong(l, size) ==
  [c \in 1..((Len(l) + size) \div (size + 1)) |->
     SubSeq(l, (c - 1) * (size + 1) + 1,
            IF c * (size + 1) < Len(l) THEN c * (size + 1) ELSE Len(l))]

\* a divide that yields full chunks only
divide_drops_tail(l, size) ==
  [c \in 1..(Len(l) \div size) |-> SubSeq(l, (c - 1) * size + 1, c * size)]

\* list(divide(lst, n)) for n > 0: lst[i: i + n] for i in range(0, len(lst), n)
divide(l, size) ==
  [c \in 1..((Len(l) + size - 1) \div size) |->
     SubSeq(l, (c - 1) * size + 1,
            IF c * size < Len(l) THEN c * size ELSE Len(l))]

----------------------------------------------------------------------------
(* create_stocks / create_prices of both scripts *)

GT10 == <<">", "1", "0">>

\* a quantity rule without the two special cases
stock_count_plain(watch) == py_int(watch.Kolichestvo)

\* the quantity rule both create_stocks share: ">10" is 100, "1" is 0,
\* anything else is int(quantity)
stock_count(watch) ==
  LET count == py_str(watch.Kolichestvo)
  IN IF count = GT10 THEN [ok |-> TRUE, v |-> 100]
     ELSE IF count = <<"1">> THEN [ok |-> TRUE, v |-> 0]
     ELSE py_int(watch.Kolichestvo)

SellerStock(id, count) == [offer_id |-> id, stock |-> count]

UpdatedAt == "utcnow"

MarketStock(id, count, warehouse_id) ==
  [sku |-> id, warehouseId |-> warehouse_id,
   items |-> <<[count |-> count, type |-> "FIT", updatedAt |-> UpdatedAt]>>]

\* the first loop of seller.create_stocks, from item k on
RECURSIVE seller_match(_, _, _, _)
seller_match(wr, k, ids, acc) ==
  IF k > Len(wr) THEN [exc |-> "", stocks |-> acc, offer_ids |-> ids]
  ELSE LET code == py_str(wr[k].Kod)
       IN IF In(code, ids)
          THEN LET st == stock_count(wr[k])
               IN IF ~st.ok
                  THEN [exc |-> "ValueError", stocks |-> acc, offer_ids |-> ids]
                  ELSE seller_match(wr, k + 1, Remove(ids, code),
                                    Append(acc, SellerStock(code, st.v)))
          ELSE seller_match(wr, k + 1, ids, acc)

create_stocks_seller(wr, ids) ==
  LET m == seller_match(wr, 1, ids, << >>)
  IN IF m.exc # "" THEN m
     ELSE [exc |-> "",
           stocks |-> m.stocks \o
             [k \in 1..Len(m.offer_ids) |-> SellerStock(m.offer_ids[k], 0)],
           offer_ids |-> m.offer_ids]

\* the first loop of market.create_stocks, from item k on
RECURSIVE market_match(_, _, _, _, _)
market_match(wr, k, ids, warehouse_id, acc) ==
  IF k > Len(wr) THEN [exc |-> "", stocks |-> acc, offer_ids |-> ids]
  ELSE LET code == py_str(wr[k].Kod)
       IN IF In(code, ids)
          THEN LET st == stock_count(wr[k])
               IN IF ~st.ok
                  THEN [exc |-> "ValueError", stocks |-> acc, offer_ids |-> ids]
                  ELSE market_match(wr, k + 1, Remove(ids, code), warehouse_id,
                         Append(acc, MarketStock(code, st.v, warehouse_id)))
          ELSE market_match(wr, k + 1, ids, warehouse_id, acc)

create_stocks_market(wr, ids, warehouse_id) ==
  LET m == market_match(wr, 1, ids, warehouse_id, << >>)
  IN IF m.exc # "" THEN m
     ELSE [exc |-> "",
           stocks |-> m.stocks \o
             [k \in 1..Len(m.offer_ids) |->
                MarketStock(m.offer_ids[k], 0, warehouse_id)],
           offer_ids |-> m.offer_ids]

\* a create_prices loop without the test against offer_ids
MatchedAll(wr, ids) == wr

\* the items create_prices emits a record for, in inventory order
Matched(wr, ids) ==
  LET Hit(watch) == In(py_str(watch.Kod), ids)
  IN SelectSeq(wr, Hit)

create_prices_seller(wr, ids) ==
  LET hit == Matched(wr, ids)
      conv == [k \in 1..Len(hit) |-> price_conversion(hit[k].Tsena)]
  IN IF \E k \in 1..Len(hit) : ~conv[k].ok
     THEN [exc |-> "AttributeError", prices |-> << >>]
     ELSE [exc |-> "",
           prices |-> [k \in 1..Len(hit) |->
             [auto_action_enabled |-> "UNKNOWN", currency_code |-> "RUB",
              offer_id |-> py_str(hit[k].Kod), old_price |-> "0",
              price |-> conv[k].s]]]

create_prices_market(wr, ids) ==
  LET hit == Matched(wr, ids)
      conv == [k \in 1..Len(hit) |-> price_conversion(hit[k].Tsena)]
      val == [k \in 1..Len(hit) |-> py_int(PyStr(conv[k].s))]
      bad == {k \in 1..Len(hit) : ~conv[k].ok \/ ~val[k].ok}
  IN IF bad # {}
     THEN [exc |-> IF conv[SetMin(bad)].ok THEN "ValueError"
                   ELSE "AttributeError",
           prices |-> << >>]
     ELSE [exc |-> "",
           prices |-> [k \in 1..Len(hit) |->
             [id |-> py_str(hit[k].Kod),
              price |-> [value |-> val[k].v, currencyId |-> "RUR"]]]]

----------------------------------------------------------------------------
(* Limits the scripts pass to divide and to the list endpoints *)

SELLER_PAGE_LIMIT == 1000
MARKET_PAGE_LIMIT == 200
SELLER_STOCKS_BATCH == 100
SELLER_PRICES_BATCH_MAIN == 900
SELLER_PRICES_BATCH_UPLOAD == 1000
MARKET_STOCKS_BATCH == 2000
MARKET_PRICES_BATCH == 500

----------------------------------------------------------------------------
(* The remote services *)

\* a cursor: the str v stands for the position the backend resumes at, "" is
\* position 0; some = FALSE is the value dict.get gives for an absent key
Tok(pos) == [some |-> TRUE, v |-> pos]

NoTok == [some |-> FALSE, v |-> 0]

PageEnd(b, a, pos, limit) ==
  LET k == IF b.ps = 0 \/ b.ps > limit THEN limit ELSE b.ps
      len == Len(b.catalog[a])
  IN IF pos + k < len THEN pos + k ELSE len

\* the "result" of POST /v2/product/list for the cursor last_id
OzonResult(b, a, last_id, limit) ==
  LET pos == IF last_id.v < Len(b.catalog[a]) THEN last_id.v
             ELSE Len(b.catalog[a])
      hi == PageEnd(b, a, pos, limit)
  IN [items |-> [j \in 1..(hi - pos) |->
                   [product_id |-> pos + j, offer_id |-> b.catalog[a][pos + j]]],
      total |-> Len(b.catalog[a]),
      last_id |-> Tok(hi)]

\* the "result" of GET campaigns/{id}/offer-mapping-entries for page_token
MarketResult(b, a, page_token, limit) ==
  LET pos == IF page_token.v < Len(b.catalog[a]) THEN page_token.v
             ELSE Len(b.catalog[a])
      hi == PageEnd(b, a, pos, limit)
  IN [offerMappingEntries |-> [j \in 1..(hi - pos) |->
                   [offer |-> [shopSku |-> b.catalog[a][pos + j]]]],
      paging |-> [nextPageToken |->
                   IF hi < Len(b.catalog[a]) THEN Tok(hi)
                   ELSE IF b.absent THEN NoTok ELSE Tok(0)]]

\* what a request may end in: a response, or one of the exceptions of requests
Replies == {"ok", "ReadTimeout", "ConnectionError", "HTTPError"}

\* a request as the log keeps it: what was sent (cursor or body), whether a
\* response came, and for a page response its item count, total and cursor
Request(kind, a, cursor, body, reply, got, total, next) ==
  [kind |-> kind, account |-> a, cursor |-> cursor, body |-> body,
   ok |-> (reply = "ok"),
   got |-> IF reply = "ok" THEN got ELSE 0,
   total |-> IF reply = "ok" THEN total ELSE 0,
   next |-> IF reply = "ok" THEN next ELSE NoTok]

----------------------------------------------------------------------------
(* How a call ends *)

Running == [how |-> "", what |-> ""]

Returned == [how |-> "returned", what |-> ""]

\* main of either script catches everything and prints; the other functions
\* let the exception propagate to their caller
Handle(e) ==
  IF entry = "main"
  THEN [how |-> "printed",
        what |-> IF e \in {"ReadTimeout", "ConnectionError"} THEN e
                 ELSE "ERROR_2"]
  ELSE [how |-> "raised", what |-> e]

WAREHOUSE_ID(a) == IF a = "DBS" THEN "WAREHOUSE_DBS_ID" ELSE "WAREHOUSE_FBS_ID"

\* not page
Falsy(tok) == ~tok.some \/ tok.v = 0

\* a loop that ends at the first page shorter than the limit
seller_stop_short_page(total, plist, items) == Len(items) < SELLER_PAGE_LIMIT

\* seller.get_offer_ids: total == len(product_list)
seller_stop(total, plist, items) == total = Len(plist)

\* a loop that ends only when the token is absent
market_stop_absent_only(tok) == ~tok.some

\* market.get_offer_ids: not page
market_stop(tok) == Falsy(tok)

\* a loop that never takes the token of the response
market_next_page_first(res) == Tok(0)

\* market.get_offer_ids: page = some_prod.get("paging").get("nextPageToken")
market_next_page(res) == res.paging.nextPageToken

----------------------------------------------------------------------------
(* Inputs *)

SeqsUpTo(S, m) == UNION {[1..k -> S] : k \in 0..m}

NoDup(q) == \A i, j \in 1..Len(q) : q[i] = q[j] => i = j

Accounts == {"OZON", "FBS", "DBS"}

\* "5'990.00 rub", "0.50", "rub", "-5.90"
PriceTexts ==
  {<<"5", "'", "9", "9", "0", ".", "0", "0", " ", "r", "u", "b">>,
   <<"0", ".", "5", "0">>, <<"r", "u", "b">>, <<"-", "5", ".", "9", "0">>}

Codes == {PyInt(1), PyInt(2), PyStr(<<"1">>)}

Quantities ==
  {PyStr(GT10), PyStr(<<"1">>), PyInt(1), PyStr(<<"7">>), PyStr(<<"-", "5">>),
   PyStr(<<"x">>)}

Prices == {PyStr(cs) : cs \in PriceTexts} \cup {PyInt(100)}

Item(code, quantity, price) ==
  [Kod |-> code, Kolichestvo |-> quantity, Tsena |-> price]

StockItems == {Item(c, q, PyStr(<<"0", ".", "5", "0">>)) : c \in Codes, q \in Quantities}

PriceItems == {Item(c, PyStr(<<"7">>), p) : c \in Codes, p \in Prices}

RemoteIds == {<<"1">>, <<"3">>}

\* the inventories of whole runs
RunItems ==
  {Item(PyInt(1), PyStr(GT10), PyStr(<<"5", "'", "9", "9", "0", ".", "0", "0", " ", "r", "u", "b">>)),
   Item(PyInt(2), PyInt(1), PyStr(<<"0", ".", "5", "0">>)),
   Item(PyStr(<<"1">>), PyStr(<<"x">>), PyStr(<<"r", "u", "b">>))}

\* a catalog holds an offer id once
Catalogs == {q \in SeqsUpTo(RemoteIds, Cardinality(RemoteIds)) : NoDup(q)}

\* offer ids "1" .. "size" and an inventory that holds every one of them
BigCatalog(size) == [k \in 1..size |-> NatToStr(k)]

BigFeed(size) ==
  [k \in 1..size |-> Item(PyInt(k), PyStr(<<"7">>), PyStr(<<"0", ".", "5", "0">>))]

NoBackend == [catalog |-> [a \in Accounts |-> << >>], ps |-> 0, absent |-> FALSE]

Start(m, e, p, a, b, f, wr, ids, l, size) ==
  /\ mp = m /\ entry = e /\ pc = p /\ account = a /\ backend = b
  /\ feed = f /\ watch_remnants = wr
  /\ page = Tok(0) /\ product_list = << >>
  /\ offer_ids = ids /\ remote = ids
  /\ stocks = << >> /\ prices = << >> /\ batches = << >> /\ sent = 0
  /\ requests = << >> /\ outcome = Running
  /\ lst = l /\ n = size

----------------------------------------------------------------------------
(* Calls of the pure functions *)

InitFn ==
  \/ \E m \in {"seller", "market"} :
     \E wr \in SeqsUpTo(StockItems, MaxInv), ids \in SeqsUpTo(RemoteIds, MaxRemote) :
       Start(m, "create_stocks", "call", "", NoBackend, << >>, wr, ids, << >>, 1)
  \/ \E m \in {"seller", "market"} :
     \E wr \in SeqsUpTo(PriceItems, MaxInv), ids \in SeqsUpTo(RemoteIds, MaxRemote) :
       Start(m, "create_prices", "call", "", NoBackend, << >>, wr, ids, << >>, 1)
  \/ \E l \in SeqsUpTo({"a", "b"}, MaxLst), size \in 1..MaxN :
       Start("seller", "divide", "call", "", NoBackend, << >>, << >>, << >>, l, size)

FnEnd(exc) ==
  /\ pc' = "done"
  /\ outcome' = IF exc = "" THEN Returned ELSE [how |-> "raised", what |-> exc]
  /\ UNCHANGED <<mp, entry, account, backend, feed, watch_remnants, page,
                 product_list, remote, sent, requests, lst, n>>

CallCreateStocksSeller ==
  /\ pc = "call" /\ entry = "create_stocks" /\ mp = "seller"
  /\ LET r == create_stocks_seller(watch_remnants, offer_ids)
     IN /\ stocks' = IF r.exc = "" THEN r.stocks ELSE stocks
        /\ offer_ids' = r.offer_ids
        /\ FnEnd(r.exc)
  /\ UNCHANGED <<prices, batches>>

CallCreateStocksMarket ==
  /\ pc = "call" /\ entry = "create_stocks" /\ mp = "market"
  /\ LET r == create_stocks_market(watch_remnants, offer_ids, WAREHOUSE_ID("FBS"))
     IN /\ stocks' = IF r.exc = "" THEN r.stocks ELSE stocks
        /\ offer_ids' = r.offer_ids
        /\ FnEnd(r.exc)
  /\ UNCHANGED <<prices, batches>>

CallCreatePricesSeller ==
  /\ pc = "call" /\ entry = "create_prices" /\ mp = "seller"
  /\ LET r == create_prices_seller(watch_remnants, offer_ids)
     IN /\ prices' = r.prices
        /\ FnEnd(r.exc)
  /\ UNCHANGED <<stocks, offer_ids, batches>>

CallCreatePricesMarket ==
  /\ pc = "call" /\ entry = "create_prices" /\ mp = "market"
  /\ LET r == create_prices_market(watch_remnants, offer_ids)
     IN /\ prices' = r.prices
        /\ FnEnd(r.exc)
  /\ UNCHANGED <<stocks, offer_ids, batches>>

CallDivide ==
  /\ pc = "call" /\ entry = "divide"
  /\ batches' = divide(lst, n)
  /\ FnEnd("")
  /\ UNCHANGED <<stocks, prices, offer_ids>>

NextFn ==
  \/ CallCreateStocksSeller
  \/ CallCreateStocksMarket
  \/ CallCreatePricesSeller
  \/ CallCreatePricesMarket
  \/ CallDivide

SpecFn == InitFn /\ [][NextFn]_vars

----------------------------------------------------------------------------
(* Whole runs: main, upload_stocks, upload_prices and get_offer_ids of *)
(* either script                                                       *)

SmallBackends ==
  {[catalog |-> [a \in Accounts |-> IF a = "DBS" THEN d ELSE c],
    ps |-> s, absent |-> ab] :
     c \in Catalogs, d \in Catalogs, s \in 0..MaxPs, ab \in BOOLEAN}

BigBackend(size) ==
  [catalog |-> [a \in Accounts |-> IF a = "DBS" THEN <<<<"1">>>> ELSE BigCatalog(size)],
   ps |-> 0, absent |-> FALSE]

Entries == {"main", "upload_stocks", "upload_prices", "get_offer_ids"}

FirstAccount(m) == IF m = "seller" THEN "OZON" ELSE "FBS"

\* market.main downloads the inventory before anything else; every other
\* entry point starts by fetching the offer ids
FirstPc(m, e) ==
  IF m = "market" /\ e = "main" THEN "download_stock" ELSE "get_offer_ids"

\* main downloads the inventory itself, the other entry points are handed it
Run(m, e, b, f) ==
  Start(m, e, FirstPc(m, e), FirstAccount(m), b, f,
        IF e = "main" THEN << >> ELSE f, << >>, << >>, 1)

Init ==
  \/ \E m \in {"seller", "market"}, e \in Entries, b \in SmallBackends :
     \E f \in SeqsUpTo(RunItems, MaxFeed) :
       /\ m = "seller" => b.catalog["DBS"] = << >> /\ ~b.absent
       /\ e # "main" => b.catalog["DBS"] = << >>
       /\ Run(m, e, b, f)
  \/ \E e \in {"main", "upload_stocks"} :
       \/ Run("seller", e, BigBackend(SELLER_STOCKS_BATCH + Overflow),
              BigFeed(MaxFeed))
       \/ Run("market", e, BigBackend(MARKET_STOCKS_BATCH + Overflow),
              BigFeed(MaxFeed))
  \/ Run("seller", "upload_prices",
         BigBackend(SELLER_PRICES_BATCH_UPLOAD + Overflow),
         BigFeed(SELLER_PRICES_BATCH_UPLOAD + Overflow))
  \/ Run("market", "upload_prices", BigBackend(MARKET_PRICES_BATCH + Overflow),
         BigFeed(MARKET_PRICES_BATCH + Overflow))

\* where a call continues once get_offer_ids has returned
AfterFetch ==
  IF entry = "get_offer_ids" THEN "done"
  ELSE IF entry = "upload_prices" THEN "create_prices"
  ELSE IF entry = "main" /\ mp = "seller" THEN "download_stock"
  ELSE "create_stocks"

\* where a call continues once every stock batch is submitted
AfterStocks ==
  IF entry = "upload_stocks" THEN "done"
  ELSE IF mp = "seller" THEN "create_prices"
  ELSE "upload_prices"

EndOf(next) == IF next = "done" THEN Returned ELSE Running

\* one iteration of the loop of seller.get_offer_ids
SellerGetProductList ==
  /\ mp = "seller" /\ pc = "get_offer_ids"
  /\ Len(requests) < MaxRequests
  /\ \E reply \in Replies :
       LET ok == reply = "ok"
           res == OzonResult(backend, account, page, SELLER_PAGE_LIMIT)
           pl == product_list \o res.items
           stop == ok /\ seller_stop(res.total, pl, res.items)
           ids == [k \in 1..Len(pl) |-> pl[k].offer_id]
       IN /\ requests' = Append(requests, Request("page", account, page, << >>, reply,
                                 Len(res.items), res.total, res.last_id))
          /\ product_list' = IF ok THEN pl ELSE product_list
          /\ page' = IF ok THEN res.last_id ELSE page
          /\ offer_ids' = IF stop THEN ids ELSE offer_ids
          /\ remote' = IF stop THEN ids ELSE remote
          /\ pc' = IF ~ok THEN "done" ELSE IF stop THEN AfterFetch ELSE pc
          /\ outcome' = IF ~ok THEN Handle(reply)
                        ELSE IF stop THEN EndOf(AfterFetch) ELSE outcome
  /\ UNCHANGED <<mp, entry, account, backend, feed, watch_remnants, stocks,
                 prices, batches, sent, lst, n>>

\* one iteration of the loop of market.get_offer_ids
MarketGetProductList ==
  /\ mp = "market" /\ pc = "get_offer_ids"
  /\ Len(requests) < MaxRequests
  /\ \E reply \in Replies :
       LET ok == reply = "ok"
           res == MarketResult(backend, account, page, MARKET_PAGE_LIMIT)
           pl == product_list \o res.offerMappingEntries
           next == market_next_page(res)
           stop == ok /\ market_stop(next)
           ids == [k \in 1..Len(pl) |-> pl[k].offer.shopSku]
       IN /\ requests' = Append(requests, Request("page", account, page, << >>, reply,
                                 Len(res.offerMappingEntries), 0, next))
          /\ product_list' = IF ok THEN pl ELSE product_list
          /\ page' = IF ok THEN next ELSE page
          /\ offer_ids' = IF stop THEN ids ELSE offer_ids
          /\ remote' = IF stop THEN ids ELSE remote
          /\ pc' = IF ~ok THEN "done" ELSE IF stop THEN AfterFetch ELSE pc
          /\ outcome' = IF ~ok THEN Handle(reply)
                        ELSE IF stop THEN EndOf(AfterFetch) ELSE outcome
  /\ UNCHANGED <<mp, entry, account, backend, feed, watch_remnants, stocks,
                 prices, batches, sent, lst, n>>

\* download_stock(): inside the try of seller.main, before the try of
\* market.main
DownloadStock ==
  /\ pc = "download_stock"
  /\ \E reply \in Replies :
       LET ok == reply = "ok"
       IN /\ requests' = Append(requests, Request("download", "", Tok(0), << >>, reply, 0, 0, NoTok))
          /\ watch_remnants' = IF ok THEN feed ELSE watch_remnants
          /\ pc' = IF ~ok THEN "done"
                   ELSE IF mp = "seller" THEN "create_stocks" ELSE "get_offer_ids"
          /\ outcome' = IF ok THEN outcome
                        ELSE IF mp = "seller" THEN Handle(reply)
                        ELSE [how |-> "raised", what |-> reply]
  /\ UNCHANGED <<mp, entry, account, backend, feed, page, product_list,
                 offer_ids, remote, stocks, prices, batches, sent, lst, n>>

\* stocks = create_stocks(...) and the list(divide(stocks, 100)) of the loop
\* that follows it
SellerCreateStocks ==
  /\ mp = "seller" /\ pc = "create_stocks"
  /\ LET r == create_stocks_seller(watch_remnants, offer_ids)
         parts == divide(r.stocks, SELLER_STOCKS_BATCH)
         empty == r.exc = "" /\ parts = << >>
     IN /\ stocks' = IF r.exc = "" THEN r.stocks ELSE stocks
        /\ offer_ids' = r.offer_ids
        /\ batches' = IF r.exc = "" THEN parts ELSE batches
        /\ sent' = 0
        /\ pc' = IF r.exc # "" THEN "done"
                 ELSE IF empty THEN AfterStocks ELSE "update_stocks"
        /\ outcome' = IF r.exc # "" THEN Handle(r.exc)
                      ELSE IF empty THEN EndOf(AfterStocks) ELSE outcome
  /\ UNCHANGED <<mp, entry, account, backend, feed, watch_remnants, page,
                 product_list, remote, prices, requests, lst, n>>

MarketCreateStocks ==
  /\ mp = "market" /\ pc = "create_stocks"
  /\ LET r == create_stocks_market(watch_remnants, offer_ids, WAREHOUSE_ID(account))
         parts == divide(r.stocks, MARKET_STOCKS_BATCH)
         empty == r.exc = "" /\ parts = << >>
     IN /\ stocks' = IF r.exc = "" THEN r.stocks ELSE stocks
        /\ offer_ids' = r.offer_ids
        /\ batches' = IF r.exc = "" THEN parts ELSE batches
        /\ sent' = 0
        /\ pc' = IF r.exc # "" THEN "done"
                 ELSE IF empty THEN AfterStocks ELSE "update_stocks"
        /\ outcome' = IF r.exc # "" THEN Handle(r.exc)
                      ELSE IF empty THEN EndOf(AfterStocks) ELSE outcome
  /\ UNCHANGED <<mp, entry, account, backend, feed, watch_remnants, page,
                 product_list, remote, prices, requests, lst, n>>

\* one iteration of "for some_stock in ...: update_stocks(some_stock, ...)"
\* (the loop is the same in both scripts; update_stocks is one request)
UpdateStocks ==
  /\ pc = "update_stocks"
  /\ \E reply \in Replies :
       LET ok == reply = "ok"
           last == sent + 1 = Len(batches)
       IN /\ requests' = Append(requests,
               Request("stocks", account, Tok(0), batches[sent + 1], reply, 0, 0, NoTok))
          /\ sent' = IF ok THEN sent + 1 ELSE sent
          /\ pc' = IF ~ok THEN "done" ELSE IF last THEN AfterStocks ELSE pc
          /\ outcome' = IF ~ok THEN Handle(reply)
                        ELSE IF last THEN EndOf(AfterStocks) ELSE outcome
  /\ UNCHANGED <<mp, entry, account, backend, feed, watch_remnants, page,
                 product_list, offer_ids, remote, stocks, prices, batches, lst, n>>

\* market.main: upload_prices(...) is a coroutine function called without
\* await, so its body never runs; then the next account, or the end
MarketUploadPricesNotAwaited ==
  /\ mp = "market" /\ entry = "main" /\ pc = "upload_prices"
  /\ account' = "DBS"
  /\ pc' = IF account = "FBS" THEN "get_offer_ids" ELSE "done"
  /\ outcome' = IF account = "FBS" THEN outcome ELSE Returned
  /\ page' = Tok(0)
  /\ product_list' = << >>
  /\ UNCHANGED <<mp, entry, backend, feed, watch_remnants, offer_ids, remote,
                 stocks, prices, batches, sent, requests, lst, n>>

SellerCreatePrices ==
  /\ mp = "seller" /\ pc = "create_prices"
  /\ LET r == create_prices_seller(watch_remnants, offer_ids)
         parts == divide(r.prices, IF entry = "main" THEN SELLER_PRICES_BATCH_MAIN
                                   ELSE SELLER_PRICES_BATCH_UPLOAD)
         empty == r.exc = "" /\ parts = << >>
     IN /\ prices' = IF r.exc = "" THEN r.prices ELSE prices
        /\ batches' = IF r.exc = "" THEN parts ELSE batches
        /\ sent' = 0
        /\ pc' = IF r.exc # "" \/ empty THEN "done" ELSE "update_price"
        /\ outcome' = IF r.exc # "" THEN Handle(r.exc)
                      ELSE IF empty THEN Returned ELSE outcome
  /\ UNCHANGED <<mp, entry, account, backend, feed, watch_remnants, page,
                 product_list, offer_ids, remote, stocks, requests, lst, n>>

\* the body of market.upload_prices after get_offer_ids, when it is awaited
MarketCreatePrices ==
  /\ mp = "market" /\ pc = "create_prices"
  /\ LET r == create_prices_market(watch_remnants, offer_ids)
         parts == divide(r.prices, MARKET_PRICES_BATCH)
         empty == r.exc = "" /\ parts = << >>
     IN /\ prices' = IF r.exc = "" THEN r.prices ELSE prices
        /\ batches' = IF r.exc = "" THEN parts ELSE batches
        /\ sent' = 0
        /\ pc' = IF r.exc # "" \/ empty THEN "done" ELSE "update_price"
        /\ outcome' = IF r.exc # "" THEN Handle(r.exc)
                      ELSE IF empty THEN Returned ELSE outcome
  /\ UNCHANGED <<mp, entry, account, backend, feed, watch_remnants, page,
                 product_list, offer_ids, remote, stocks, requests, lst, n>>

\* one iteration of "for some_price in ...: update_price(some_price, ...)"
UpdatePrice ==
  /\ pc = "update_price"
  /\ \E reply \in Replies :
       LET ok == reply = "ok"
           last == sent + 1 = Len(batches)
       IN /\ requests' = Append(requests,
               Request("prices", account, Tok(0), batches[sent + 1], reply, 0, 0, NoTok))
          /\ sent' = IF ok THEN sent + 1 ELSE sent
          /\ pc' = IF ~ok \/ last THEN "done" ELSE pc
          /\ outcome' = IF ~ok THEN Handle(reply)
                        ELSE IF last THEN Returned ELSE outcome
  /\ UNCHANGED <<mp, entry, account, backend, feed, watch_remnants, page,
                 product_list, offer_ids, remote, stocks, prices, batches, lst, n>>

Next ==
  \/ SellerGetProductList
  \/ MarketGetProductList
  \/ DownloadStock
  \/ SellerCreateStocks
  \/ MarketCreateStocks
  \/ UpdateStocks
  \/ MarketUploadPricesNotAwaited
  \/ SellerCreatePrices
  \/ MarketCreatePrices
  \/ UpdatePrice

Spec == Init /\ [][Next]_vars

----------------------------------------------------------------------------
(* Properties of create_stocks, create_prices and divide (under SpecFn) *)

StockId(r) == IF mp = "seller" THEN r.offer_id ELSE r.sku

StockCount(r) == IF mp = "seller" THEN r.stock ELSE r.items[1].count

PriceId(r) == IF mp = "seller" THEN r.offer_id ELSE r.id

Returns(e) == entry = e /\ pc = "done" /\ outcome = Returned

\* the inventory items whose code, as text, is id
ItemsOf(id) == {k \in 1..Len(watch_remnants) : py_str(watch_remnants[k].Kod) = id}

RecordsOf(id) == {j \in 1..Len(stocks) : StockId(stocks[j]) = id}

\* C1: when create_stocks returns for a remote list without repeated ids, its
\* records carry exactly the ids of that list, each id in exactly one record.
StockCompleteness ==
  (Returns("create_stocks") /\ NoDup(remote)) =>
    /\ \A k \in 1..Len(remote) : Cardinality(RecordsOf(remote[k])) = 1
    /\ \A j \in 1..Len(stocks) : In(StockId(stocks[j]), remote)

\* a remote id matched by two inventory items, beside an item that is not remote
StockCompletenessWitness ==
  /\ Returns("create_stocks") /\ NoDup(remote) /\ Len(remote) = 2
  /\ \E id \in RemoteIds : In(id, remote) /\ Cardinality(ItemsOf(id)) = 2

\* the count the quantity rule assigns to each quantity text of the inputs
NormalizedQuantity ==
  [q \in {GT10, <<"1">>, <<"7">>, <<"-", "5">>} |->
     IF q = GT10 THEN 100
     ELSE IF q = <<"1">> THEN 0
     ELSE IF q = <<"7">> THEN 7
     ELSE 0 - 5]

\* C2: in the output of create_stocks, the (first) record of a remote id that is
\* an inventory code carries the normalized quantity of the first inventory
\* item with that code, and every record of a remote id that is no inventory
\* code carries 0.
StockMatching ==
  Returns("create_stocks") =>
    \A k \in 1..Len(remote) :
      IF ItemsOf(remote[k]) # {}
      THEN /\ RecordsOf(remote[k]) # {}
           /\ StockCount(stocks[SetMin(RecordsOf(remote[k]))]) =
                NormalizedQuantity[
                  py_str(watch_remnants[SetMin(ItemsOf(remote[k]))].Kolichestvo)]
      ELSE \A j \in RecordsOf(remote[k]) : StockCount(stocks[j]) = 0

\* "1" matched by two items of different quantity, the first of them "1" or
\* ">10", and "3" left to the remainder pass
StockMatchingWitness ==
  /\ Returns("create_stocks")
  /\ In(<<"1">>, remote) /\ In(<<"3">>, remote)
  /\ Len(watch_remnants) = 2
  /\ ItemsOf(<<"1">>) = {1, 2}
  /\ py_str(watch_remnants[1].Kolichestvo) \in {GT10, <<"1">>}
  /\ py_str(watch_remnants[2].Kolichestvo) = <<"7">>

\* C3: the ids of the records create_prices returns are exactly the remote ids
\* that are the code of some inventory item.
PriceSubset ==
  Returns("create_prices") =>
    {PriceId(prices[j]) : j \in 1..Len(prices)} =
      {remote[k] : k \in {i \in 1..Len(remote) : ItemsOf(remote[i]) # {}}}

\* an item that is remote, an item that is not, and a remote id without item
PriceSubsetWitness ==
  /\ Returns("create_prices")
  /\ Len(prices) = 1 /\ Len(watch_remnants) = 2
  /\ \E k \in 1..Len(remote) : ItemsOf(remote[k]) = {}

RECURSIVE Flatten(_)
Flatten(parts) ==
  IF Len(parts) = 0 THEN << >>
  ELSE Flatten(SubSeq(parts, 1, Len(parts) - 1)) \o parts[Len(parts)]

\* C5: the chunks of divide(lst, n), n > 0, concatenated in order are lst; every
\* chunk but the last has exactly n elements, the last between 1 and n, and an
\* empty lst has no chunk.
DivideCoverage ==
  Returns("divide") =>
    /\ Flatten(batches) = lst
    /\ \A c \in 1..Len(batches) :
         IF c < Len(batches) THEN Len(batches[c]) = n
         ELSE Len(batches[c]) >= 1 /\ Len(batches[c]) <= n
    /\ (Len(lst) = 0 => Len(batches) = 0)

\* a list that does not divide evenly: two chunks, the last one short
DivideCoverageWitness ==
  /\ Returns("divide")
  /\ n = 3 /\ Len(lst) = 4 /\ Len(batches) = 2 /\ Len(batches[2]) = 1

\* C10: every stock record create_stocks returns has a count >= 0 and every
\* price record create_prices returns has a price >= 0 (digits only for Ozon, a
\* non-negative integer for Yandex Market).
NonNegativeValues ==
  /\ Returns("create_stocks") =>
       \A j \in 1..Len(stocks) : StockCount(stocks[j]) >= 0
  /\ Returns("create_prices") =>
       \A j \in 1..Len(prices) :
         IF mp = "seller"
         THEN \A k \in 1..Len(prices[j].price) : IsDigit(prices[j].price[k])
         ELSE prices[j].price.value >= 0

----------------------------------------------------------------------------
(* Properties of whole runs (under Spec) *)

\* the page requests of an account, in the order they were sent
PageRequests(a) ==
  LET Hit(r) == r.kind = "page" /\ r.account = a
  IN SelectSeq(requests, Hit)

\* the update requests of one kind for an account, in the order they were sent
UpdateRequests(kind, a) ==
  LET Hit(r) == r.kind = kind /\ r.account = a
  IN SelectSeq(requests, Hit)

RECURSIVE Bodies(_)
Bodies(rs) ==
  IF Len(rs) = 0 THEN << >>
  ELSE Bodies(SubSeq(rs, 1, Len(rs) - 1)) \o rs[Len(rs)].body

\* the records the update requests of an account carried, in order
Carried(kind, a) == Bodies(UpdateRequests(kind, a))

IsPrefix(p, q) == Len(p) <= Len(q) /\ p = SubSeq(q, 1, Len(p))

\* get_offer_ids has returned for the account
Fetched(a) ==
  /\ Len(PageRequests(a)) > 0
  /\ PageRequests(a)[Len(PageRequests(a))].ok
  /\ ~(account = a /\ pc = "get_offer_ids")

\* the account whose records the variable stocks holds
StocksAccount ==
  IF mp = "market" /\ Len(stocks) > 0
  THEN IF stocks[1].warehouseId = WAREHOUSE_ID("DBS") THEN "DBS" ELSE "FBS"
  ELSE account

\* C4: in a run of seller.main that ends without a failure, the ids of the
\* submitted price records are exactly the fetched remote ids that are the code
\* of an inventory item.
PriceCoverage ==
  (mp = "seller" /\ Returns("main")) =>
    {r.offer_id : r \in {Carried("prices", "OZON")[j] :
                           j \in 1..Len(Carried("prices", "OZON"))}} =
      {remote[k] : k \in {i \in 1..Len(remote) : ItemsOf(remote[i]) # {}}}

\* the numbers of records the endpoints accept in one request
WireLimit(kind) ==
  IF kind = "stocks" THEN (IF mp = "market" THEN 2000 ELSE 100)
  ELSE IF mp = "market" THEN 500
  ELSE IF entry = "main" THEN 900 ELSE 1000

\* C6, as stated: when a run is over, every reconciled stock and price record
\* has been carried by exactly one request.
EveryRecordCarried ==
  pc = "done" =>
    /\ Carried("stocks", StocksAccount) = stocks
    /\ Carried("prices", account) = prices

\* C6, amended: every update request carries between 1 and the endpoint's
\* limit of records; requests are issued one after another and none after a
\* failed one; the records the requests of an account carried are, in order, a
\* prefix of the account's reconciled records, and all of them once the loop
\* has gone through without a failure.
BatchesOnTheWire ==
  /\ \A i \in 1..Len(requests) :
       /\ requests[i].kind \in {"stocks", "prices"} =>
            /\ Len(requests[i].body) >= 1
            /\ Len(requests[i].body) <= WireLimit(requests[i].kind)
       /\ i < Len(requests) => requests[i].ok
  /\ IsPrefix(Carried("stocks", StocksAccount), stocks)
  /\ IsPrefix(Carried("prices", account), prices)
  /\ (\/ StocksAccount # account
      \/ pc \in {"upload_prices", "create_prices", "update_price"}
      \/ (pc = "done" /\ outcome = Returned))
       => Carried("stocks", StocksAccount) = stocks
  /\ (pc = "done" /\ outcome = Returned)
       => Carried("prices", account) = prices

\* a finished run whose stock records did not fit one request
BatchesOnTheWireWitness ==
  /\ pc = "done" /\ outcome = Returned
  /\ Len(UpdateRequests("stocks", StocksAccount)) = 2
  /\ Len(UpdateRequests("stocks", StocksAccount)[1].body) = WireLimit("stocks")
  /\ Len(UpdateRequests("stocks", StocksAccount)[2].body) >= 1

\* pages a backend serves a catalog in when at most limit items fit a page
PagesOf(a, limit) ==
  LET size == IF backend.ps = 0 \/ backend.ps > limit THEN limit ELSE backend.ps
      pages == (Len(backend.catalog[a]) + size - 1) \div size
  IN IF pages = 0 THEN 1 ELSE pages

\* C7: market.get_offer_ids sends its first page request with the empty
\* cursor and each further one with the nextPageToken of the previous
\* response, goes on exactly while that token is non-empty, and against a
\* backend of k pages returns after exactly k requests with the ids of all
\* pages in page order.
CursorPagination ==
  mp = "market" =>
    \A a \in {"FBS", "DBS"} :
      LET P == PageRequests(a)
      IN /\ Len(P) > 0 => P[1].cursor = Tok(0)
         /\ \A i \in 2..Len(P) :
              /\ P[i - 1].ok
              /\ P[i - 1].next.some /\ P[i - 1].next.v # 0
              /\ P[i].cursor = P[i - 1].next
         /\ (Len(P) > 0 /\ P[Len(P)].ok) =>
              (Fetched(a) <=> (~P[Len(P)].next.some \/ P[Len(P)].next.v = 0))
         /\ Len(P) <= PagesOf(a, 200)
         /\ Fetched(a) => Len(P) = PagesOf(a, 200)
         /\ (Fetched(a) /\ (a = "DBS" \/ ~Fetched("DBS")))
              => remote = backend.catalog[a]

\* the offer ids came in three pages
CursorPaginationWitness ==
  /\ mp = "market" /\ Fetched("FBS")
  /\ Len(PageRequests("FBS")) = 3
  /\ Len(remote) > 2 * 200

RECURSIVE Got(_)
Got(rs) == IF Len(rs) = 0 THEN 0 ELSE Got(SubSeq(rs, 1, Len(rs) - 1)) + rs[Len(rs)].got

\* C8: seller.get_offer_ids leaves its loop exactly at the first response for
\* which the number of items accumulated so far equals the reported total;
\* against a backend that reports the size of its catalog as total and serves
\* it in pages, it is never stuck, sends at most one request per offer (one for
\* an empty catalog) and returns the complete catalog.
CountPagination ==
  mp = "seller" =>
    LET P == PageRequests("OZON")
    IN /\ \A i \in 1..Len(P) :
            P[i].ok =>
              ((Got(SubSeq(P, 1, i)) = P[i].total) <=> (i = Len(P) /\ Fetched("OZON")))
       /\ \A i \in 1..(Len(P) - 1) : P[i].ok
       /\ Len(P) <= Len(backend.catalog["OZON"]) + 1
       /\ Fetched("OZON") => remote = backend.catalog["OZON"]
       /\ pc = "get_offer_ids" => ENABLED SellerGetProductList

\* the catalog took two pages, the first of them full
CountPaginationWitness ==
  /\ mp = "seller" /\ Fetched("OZON")
  /\ Len(PageRequests("OZON")) = 2
  /\ PageRequests("OZON")[1].got = 1000
  /\ Len(remote) > 1000

\* C9: when a request of the FBS pipeline of market.main fails, the failure is
\* reported and the DBS pipeline is still run.
AccountIndependence ==
  (/\ mp = "market" /\ entry = "main" /\ pc = "done"
   /\ \E i \in 1..Len(requests) :
        requests[i].account = "FBS" /\ ~requests[i].ok)
    => /\ outcome.how = "printed"
       /\ Len(PageRequests("DBS")) > 0

====
